---- MODULE Spec2Model ----
(***************************************************************************)
(* A model of compare_products_v2.0.py: the batch orchestrator (run_parser, *)
(* thread_target, main), the session initialisation (init_drivers,          *)
(* init_amazon_driver, init_icepim_driver), the two per-item fetch tasks    *)
(* (process_amazon, process_icepim) and the on-disk artifacts they leave.   *)
(*                                                                          *)
(* Spec      one process: the operator clicks Start any number of times;    *)
(*           each click runs run_parser and, on its worker thread,          *)
(*           init_drivers() and main().                                     *)
(* SpecInit  MaxCallers threads calling init_drivers, init_amazon_driver    *)
(*           and init_icepim_driver concurrently.                           *)
(* SpecText, SpecImages, SpecVideo, SpecExport                              *)
(*           one step of main alone, on inputs drawn freely: the text       *)
(*           comparison, compare_images_by_name_strict, the video           *)
(*           comparison, and the export with the rest of the iteration.     *)
(* SpecDownload, SpecIdentity                                               *)
(*           the download loop of download_amazon_images, and the asin of   *)
(*           an item as main and the two fetch tasks compute it.            *)
(* SpecRun, SpecChecks                                                      *)
(*           the item loop of one run, with the export box ticked or not,   *)
(*           and with the video box ticked or not.                          *)
(***************************************************************************)
EXTENDS Naturals, Integers, Sequences, FiniteSets, TLC

\* ------------------------------------------------------------------ bounds
MaxItems == 2
MaxCallers == 2
MaxZips == 2
CountCap == 2
MaxText == 3
MaxBullets == 2
MaxHex == 4
MaxFiles == 2
MaxDur == 2
MaxUrls == 2

\* ------------------------------------------------------------------ state
VARIABLES
    pc,             \* position of the run: run_parser / thread_target / main
    CHECK_IMAGES,   \* global flag, read from the GUI by main
    total,          \* len(rows) of the work list read by main
    idx,            \* 1-based index of the item of the loop of main
    amazon_driver,  \* global session handle of source A
    icepim_driver,  \* global session handle of source B
    loggedIn,       \* whether login_icepim completed on icepim_driver
    lock,           \* the global threading.Lock: the set of its holders
    ipc,            \* per caller: position inside init_drivers and its callees
    entry,          \* per caller: the outermost init function it called
    setupRuns,      \* history, per source: executions of setup_driver (capped)
    setupDone,      \* history, per source: setup_driver calls that returned a session
    report,         \* results_report.csv: whether it exists, and its lines
    taskA,          \* the process_amazon future of the current item
    taskB,          \* the process_icepim future of the current item
    cmp,            \* locals of main after the join: the verdicts so far
    tmpAmazon,      \* the tmp_amazon_<asin> folders on disk
    tmpIcepim,      \* the tmp_icepim_<asin> folders on disk
    downloads,      \* the .zip files of DOWNLOAD_DIR, oldest first
    pending,        \* gallery downloads requested and not yet on disk
    amazon_folder,  \* compare_images_by_name_strict alone: its first argument
    icepim_folder,  \* compare_images_by_name_strict alone: its second argument
    EXPORT_ENABLED, \* global flag, False at line 44; Spec follows the runs that leave it so
    export,         \* what the export of the item at hand came to
    CHECK_VIDEOS,   \* global flag, False at line 46; Spec follows the runs that leave it so
    dl,             \* download_amazon_images alone: its loop over the assets
    ident           \* the names of one item alone: its URL and the asin of each place

ivars == <<amazon_driver, icepim_driver, loggedIn, lock, ipc, entry>>
fvars == <<amazon_folder, icepim_folder>>
xvars == <<EXPORT_ENABLED, export, CHECK_VIDEOS>>
hvars == <<setupRuns, setupDone, fvars, xvars, dl, ident>>
rvars == <<pc, CHECK_IMAGES, total, idx, report, taskA, taskB, cmp>>
dvars == <<tmpAmazon, tmpIcepim, downloads, pending>>
vars == <<ivars, hvars, rvars, dvars>>

\* ------------------------------------------------------------------ values
None == "None"
Session == "session"
Worker == 0
Callers == 1 .. MaxCallers
Threads == {Worker} \cup Callers
Sources == {"amazon", "icepim"}

Bump(n) == IF n < CountCap THEN n + 1 ELSE CountCap

\* ------------------------------------------------- session initialisation
\* Each caller c walks through init_drivers / init_amazon_driver /
\* init_icepim_driver one statement at a time; "with lock" is acquired in
\* *_acquire and released on every way out of the block (return or raise).

\* Where a caller goes when init_amazon_driver returns: back into
\* init_drivers (line 201) or out to its own caller.
AfterAmazon(c) == IF entry[c] = "init_drivers" THEN "drv_B" ELSE "ret"

call_init_drivers(c) ==
    /\ ipc[c] = "idle"
    /\ ipc' = [ipc EXCEPT ![c] = "drv_A"]
    /\ entry' = [entry EXCEPT ![c] = "init_drivers"]
    /\ UNCHANGED <<amazon_driver, icepim_driver, loggedIn, lock>>

call_init_amazon_driver(c) ==
    /\ ipc[c] = "idle"
    /\ ipc' = [ipc EXCEPT ![c] = "amz_lock"]
    /\ entry' = [entry EXCEPT ![c] = "init_amazon_driver"]
    /\ UNCHANGED <<amazon_driver, icepim_driver, loggedIn, lock>>

call_init_icepim_driver(c) ==
    /\ ipc[c] = "idle"
    /\ ipc' = [ipc EXCEPT ![c] = "ice_lock"]
    /\ entry' = [entry EXCEPT ![c] = "init_icepim_driver"]
    /\ UNCHANGED <<amazon_driver, icepim_driver, loggedIn, lock>>

\* init_drivers, line 198: the unlocked test of amazon_driver.
init_drivers_amazon(c) ==
    /\ ipc[c] = "drv_A"
    /\ ipc' = [ipc EXCEPT ![c] = IF amazon_driver = None THEN "amz_lock" ELSE "drv_B"]
    /\ UNCHANGED <<amazon_driver, icepim_driver, loggedIn, lock, entry>>

\* init_drivers, lines 201-204: the unlocked test of icepim_driver.
init_drivers_icepim(c) ==
    /\ ipc[c] = "drv_B"
    /\ ipc' = [ipc EXCEPT ![c] = IF icepim_driver = None THEN "ice_lock" ELSE "ret"]
    /\ UNCHANGED <<amazon_driver, icepim_driver, loggedIn, lock, entry>>

\* "with lock:" of init_amazon_driver.
amazon_acquire(c) ==
    /\ ipc[c] = "amz_lock"
    /\ lock = {}
    /\ lock' = {c}
    /\ ipc' = [ipc EXCEPT ![c] = "amz_crit"]
    /\ UNCHANGED <<amazon_driver, icepim_driver, loggedIn, entry>>

\* A faulty variant of amazon_setup: no test of amazon_driver under the lock.
amazon_setup_untested(c) ==
    /\ ipc[c] = "amz_crit"
    /\ amazon_driver' = Session
    /\ ipc' = [ipc EXCEPT ![c] = "amz_get"]
    /\ UNCHANGED <<icepim_driver, loggedIn, lock, entry>>

\* init_amazon_driver, lines 180-181: the test under the lock, then
\* setup_driver(is_amazon=True), which returns a session or raises
\* (webdriver.Chrome fails); a raise leaves amazon_driver None.
amazon_setup(c) ==
    /\ ipc[c] = "amz_crit"
    /\ \/ /\ amazon_driver # None
          /\ lock' = lock \ {c}
          /\ ipc' = [ipc EXCEPT ![c] = AfterAmazon(c)]
          /\ UNCHANGED amazon_driver
       \/ /\ amazon_driver = None
          /\ amazon_driver' = Session
          /\ ipc' = [ipc EXCEPT ![c] = "amz_get"]
          /\ UNCHANGED lock
       \/ /\ amazon_driver = None
          /\ lock' = lock \ {c}
          /\ ipc' = [ipc EXCEPT ![c] = "raised"]
          /\ UNCHANGED amazon_driver
    /\ UNCHANGED <<icepim_driver, loggedIn, entry>>

\* init_amazon_driver, lines 182-184: amazon_driver.get(...) returns or raises.
amazon_get(c) ==
    /\ ipc[c] = "amz_get"
    /\ lock' = lock \ {c}
    /\ \/ ipc' = [ipc EXCEPT ![c] = AfterAmazon(c)]
       \/ ipc' = [ipc EXCEPT ![c] = "raised"]
    /\ UNCHANGED <<amazon_driver, icepim_driver, loggedIn, entry>>

\* "with lock:" of init_icepim_driver.
icepim_acquire(c) ==
    /\ ipc[c] = "ice_lock"
    /\ lock = {}
    /\ lock' = {c}
    /\ ipc' = [ipc EXCEPT ![c] = "ice_crit"]
    /\ UNCHANGED <<amazon_driver, icepim_driver, loggedIn, entry>>

\* init_icepim_driver, lines 189-190: the test under the lock, then
\* setup_driver(is_amazon=False); the handle is stored before the login.
icepim_setup(c) ==
    /\ ipc[c] = "ice_crit"
    /\ \/ /\ icepim_driver # None
          /\ lock' = lock \ {c}
          /\ ipc' = [ipc EXCEPT ![c] = "ret"]
          /\ UNCHANGED icepim_driver
       \/ /\ icepim_driver = None
          /\ icepim_driver' = Session
          /\ ipc' = [ipc EXCEPT ![c] = "ice_login"]
          /\ UNCHANGED lock
       \/ /\ icepim_driver = None
          /\ lock' = lock \ {c}
          /\ ipc' = [ipc EXCEPT ![c] = "raised"]
          /\ UNCHANGED icepim_driver
    /\ UNCHANGED <<amazon_driver, loggedIn, entry>>

\* init_icepim_driver, lines 191-193 with login_icepim (230-254): the login
\* succeeds, or raises (empty credentials, element wait timed out).
login_icepim(c) ==
    /\ ipc[c] = "ice_login"
    /\ lock' = lock \ {c}
    /\ \/ /\ loggedIn' = TRUE
          /\ ipc' = [ipc EXCEPT ![c] = "ret"]
       \/ /\ ipc' = [ipc EXCEPT ![c] = "raised"]
          /\ UNCHANGED loggedIn
    /\ UNCHANGED <<amazon_driver, icepim_driver, entry>>

InitStep(c) ==
    \/ init_drivers_amazon(c)
    \/ init_drivers_icepim(c)
    \/ amazon_acquire(c)
    \/ amazon_setup(c)
    \/ amazon_get(c)
    \/ icepim_acquire(c)
    \/ icepim_setup(c)
    \/ login_icepim(c)

\* A caller thread of the concurrent specification is done with its call
\* (returned or raised) and may call again.
caller_done(c) ==
    /\ ipc[c] \in {"ret", "raised"}
    /\ ipc' = [ipc EXCEPT ![c] = "idle"]
    /\ UNCHANGED <<amazon_driver, icepim_driver, loggedIn, lock, entry>>

\* ------------------------------------------------------------------- text
\* A text is a sequence of characters; each character is a one-character
\* string, "(tm)" and "(c)" standing for the trademark and copyright signs.
Whitespace == {" ", "\t", "\n"}
Stripped == {".", ",", ";", "(tm)", "(c)"} \cup Whitespace

\* str.lower() on the characters of the model.
Lower(ch) ==
    CASE ch = "A" -> "a" [] ch = "B" -> "b" [] ch = "C" -> "c"
      [] ch = "D" -> "d" [] ch = "F" -> "f" [] ch = "N" -> "n"
      [] ch = "H" -> "h" [] ch = "W" -> "w"
      [] ch = "O" -> "o" [] ch = "T" -> "t" [] ch = "U" -> "u"
      [] OTHER -> ch

RECURSIVE lstrip(_)
lstrip(t) == IF t # <<>> /\ Head(t) \in Whitespace THEN lstrip(Tail(t)) ELSE t

RECURSIVE rstrip(_)
rstrip(t) ==
    IF t # <<>> /\ t[Len(t)] \in Whitespace THEN rstrip(SubSeq(t, 1, Len(t) - 1)) ELSE t

strip(t) == rstrip(lstrip(t))

\* A faulty variant of lower: the text is compared in the case it has.
unlowered(t) == t

lower(t) == [i \in 1 .. Len(t) |-> Lower(t[i])]

\* A faulty variant of resub: the class without \s, whitespace is kept.
RECURSIVE resub_keep_space(_)
resub_keep_space(t) ==
    IF t = <<>> THEN <<>>
    ELSE IF Head(t) \in Stripped \ Whitespace THEN resub_keep_space(Tail(t))
    ELSE <<Head(t)>> \o resub_keep_space(Tail(t))

\* re.sub(r'[.,;(tm)(c)\s]+', '', t): every character of the class is removed.
RECURSIVE resub(_)
resub(t) ==
    IF t = <<>> THEN <<>>
    ELSE IF Head(t) \in Stripped THEN resub(Tail(t))
    ELSE <<Head(t)>> \o resub(Tail(t))

\* clean(text) of main, lines 1114-1115.
clean(text) == resub(lower(strip(text)))

\* main, line 1117.
TitleMatch(a, b) == clean(a["title"]) = clean(b["title"])

\* A faulty variant of BulletsMatch: the bullets compared as sets.
BulletsMatchAsSets(a, b) ==
    {clean(a["bullets"][i]) : i \in 1 .. Len(a["bullets"])}
       = {clean(b["bullets"][i]) : i \in 1 .. Len(b["bullets"])}

\* main, lines 1118-1121: equal lengths, and zip(...) equal position by position.
BulletsMatch(a, b) ==
    /\ Len(a["bullets"]) = Len(b["bullets"])
    /\ \A i \in 1 .. Len(a["bullets"]) : clean(a["bullets"][i]) = clean(b["bullets"][i])

Verdict(b) == IF b THEN "MATCH" ELSE "DIFFER"

\* ------------------------------------------------------------- snapshots
NOT_FOUND == <<"N", "O", "T", " ", "F", "O", "U", "N", "D">>

\* parse_amazon, lines 519-522 (and 510-518 with nothing found): the
\* degraded snapshot of source A.
DegradedAmazon == [title |-> NOT_FOUND, bullets |-> <<NOT_FOUND>>]

\* parse_amazon, lines 494-501: snapshots with a title and more than two bullets.
FoundAmazon ==
    { [title |-> <<"A", "b", ".">>, bullets |-> << <<"x">>, <<"y">>, <<"z", ";">> >>] }

AmazonSnapshots == {DegradedAmazon} \cup FoundAmazon

\* parse_icepim, lines 593-595: the snapshot returned when an exception is caught.
ErrorIcepim == [title |-> NOT_FOUND, bullets |-> <<NOT_FOUND>>, status |-> "ERROR"]

\* parse_icepim, lines 560-591: a title, the de-duplicated bullets and the
\* text of the approval element (539-544).
FoundIcepim ==
    { [title |-> <<"a", " ", "b">>, bullets |-> << <<"x">>, <<"y">>, <<"z">> >>,
       status |-> "Approved"],
      [title |-> <<"a", "b">>, bullets |-> << <<"y">>, <<"x">>, <<"z">> >>,
       status |-> "Draft"] }

IcepimSnapshots == {ErrorIcepim} \cup FoundIcepim

\* --------------------------------------------------------- the video verdict
\* Durations as the page shows them, and the two values that stand for a
\* duration that could not be read.
Durations == {"1:30", "2:00", "3:10"}

Sentinels == {"?:??", "error"}

\* The order of the duration strings under sorted().
Rank(d) ==
    CASE d = "1:30" -> 1
      [] d = "2:00" -> 2
      [] d = "3:10" -> 3
      [] d = "?:??" -> 4
      [] d = "error" -> 5

\* A faulty variant of Sorted: the largest first.
RECURSIVE Reversed(_)
Reversed(S) ==
    IF S = {} THEN <<>>
    ELSE LET d == CHOOSE x \in S : \A y \in S : Rank(y) <= Rank(x)
         IN  <<d>> \o Reversed(S \ {d})

\* sorted(missing), line 1148.
RECURSIVE Sorted(_)
Sorted(S) ==
    IF S = {} THEN <<>>
    ELSE LET d == CHOOSE x \in S : \A y \in S : Rank(x) <= Rank(y)
         IN  <<d>> \o Sorted(S \ {d})

Range(q) == {q[k] : k \in 1 .. Len(q)}

\* A faulty variant of VideoStatus: the subset test made before the test
\* for a duration that could not be read.
VideoStatusSubsetFirst(a, b) ==
    LET known == Range(b["videos_durations"]) \ Sentinels
    IN  IF known \subseteq Range(a["videos_durations"])
          THEN [status |-> "Match", missing |-> <<>>]
          ELSE IF Range(b["videos_durations"]) \cap Sentinels # {}
                 THEN [status |-> "Warning", missing |-> <<>>]
                 ELSE [status |-> "Need upload",
                       missing |-> Sorted(known \ Range(a["videos_durations"]))]

\* main, lines 1129-1149: the video status of an item and the durations
\* reported as missing.
VideoStatus(a, b) ==
    LET amazon_v_dur_set == Range(a["videos_durations"])
        icepim_v_dur == b["videos_durations"]
        has_unknown_in_icepim == \E k \in 1 .. Len(icepim_v_dur) : icepim_v_dur[k] \in Sentinels
        icepim_known_set == {icepim_v_dur[k] : k \in {j \in 1 .. Len(icepim_v_dur) :
                                                       icepim_v_dur[j] \notin Sentinels}}
    IN  IF has_unknown_in_icepim
          THEN [status |-> "Warning", missing |-> <<>>]
          ELSE IF icepim_known_set \subseteq amazon_v_dur_set
                 THEN [status |-> "Match", missing |-> <<>>]
                 ELSE [status |-> "Need upload",
                       missing |-> Sorted(icepim_known_set \ amazon_v_dur_set)]

\* main, lines 1129-1133: the video fields of a snapshot, read with
\* .get(key, default); the degraded snapshots have no such keys.
VideoFields(data) ==
    [videos_count |-> IF "videos_count" \in DOMAIN data THEN data["videos_count"] ELSE 0,
     videos_durations |-> IF "videos_durations" \in DOMAIN data
                            THEN data["videos_durations"] ELSE <<>>]

\* What parse_amazon_videos (255-300) and get_icepim_video_durations_by_modal
\* (600-672) can return.
AmazonVideos ==
    {[videos_count |-> 0, videos_durations |-> <<>>],
     [videos_count |-> 1, videos_durations |-> <<"1:30">>]}

IcepimVideos ==
    AmazonVideos \cup {[videos_count |-> 1, videos_durations |-> <<"2:00">>],
                       [videos_count |-> 1, videos_durations |-> <<"?:??">>]}

\* A faulty variant of WithVideos: the videos are read whatever the flag.
WithVideosUnasked(snap, found, check_videos, videos) ==
    IF snap \in found THEN {snap @@ v : v \in videos} ELSE {snap}

\* parse_amazon, lines 488-491, and parse_icepim, lines 579-582: a snapshot
\* that was found gets the videos of the page when CHECK_VIDEOS is set, and
\* count 0 with no durations otherwise (the same as the defaults of main).
WithVideos(snap, found, check_videos, videos) ==
    IF check_videos /\ snap \in found THEN {snap @@ v : v \in videos} ELSE {snap}

\* ------------------------------------------------------------ the report
\* results_report.csv as its lines. The field fresh of a line tells
\* whether the run in progress wrote it; the other fields of a row are the
\* columns ASIN (the item index), Title, Bullets, Images and IcePIM Status;
\* main adds the column Video when it writes the row.
NoReport == [exists |-> FALSE, lines |-> <<>>]

Header ==
    [kind |-> "header", fresh |-> TRUE, idx |-> 0, title |-> "Title",
     bullets |-> "Bullets", images |-> "Images", status |-> "IcePIM Status"]

Row(i, c, st) ==
    [kind |-> "row", fresh |-> TRUE, idx |-> i, title |-> c["title"],
     bullets |-> c["bullets"], images |-> c["images"], status |-> st]

\* A faulty variant of WriteHeader: the file opened with mode "a".
WriteHeaderAppending(rep) == [exists |-> TRUE, lines |-> Append(rep["lines"], Header)]

\* open(RESULTS_CSV, "w") and writeheader(), lines 1074-1076.
WriteHeader(rep) == [exists |-> TRUE, lines |-> <<Header>>]

\* A faulty variant of AppendRow: the file opened with mode "w".
AppendRowTruncating(rep, row) == [exists |-> TRUE, lines |-> <<row>>]

\* open(RESULTS_CSV, "a") and writerow(...), lines 1167-1180.
AppendRow(rep, row) == [exists |-> TRUE, lines |-> Append(rep["lines"], row)]

\* The file as the next run finds it: every line is of an earlier run.
Past(rep) ==
    [rep EXCEPT !["lines"] = [n \in DOMAIN rep["lines"] |->
                                 [rep["lines"][n] EXCEPT !["fresh"] = FALSE]]]

\* ------------------------------------------------------- files on disk
\* A folder or archive is "own" while the item it was made for is being
\* reconciled and "stale" from the end of that item on.
NoPending == [own |-> 0, stale |-> 0]

StaleFolders(folders) == IF folders = {} THEN {} ELSE {"stale"}

StaleFiles(files) == [n \in DOMAIN files |-> "stale"]

StalePending(p) == [own |-> 0, stale |-> p["own"] + p["stale"]]

\* Archives in the download directory or on their way to it.
Outstanding == Len(downloads) + pending["own"] + pending["stale"]

\* The reconciliation of the item is over: what it left on disk is stale.
ItemOver(folderA, folderB, files) ==
    /\ tmpAmazon' = StaleFolders(folderA)
    /\ tmpIcepim' = StaleFolders(folderB)
    /\ downloads' = StaleFiles(files)
    /\ pending' = StalePending(pending)

\* A folder path that is None or names nothing on disk.
NoFolder == [exists |-> FALSE, files |-> {}]

\* No item is being named.
NoIdent == [st |-> "idle"]

\* download_amazon_images is not running.
NoDownload == [st |-> "idle"]

\* --------------------------------------------------------------- the run
NoData == [title |-> <<>>, bullets |-> <<>>, status |-> "-"]
NoTaskA == [st |-> "none", data |-> NoData, folder |-> {}]
NoTaskB == [st |-> "none", data |-> NoData, folder |-> {}, zip |-> {}]
NoCmp == [title |-> "-", bullets |-> "-", images |-> "-"]

\* A faulty variant of Finished: result() returning for a running task.
Started(task) == task["st"] # "none"

Finished(task) == task["st"] \in {"done", "raised"}

\* The worker thread is back in thread_target with nothing of main left:
\* the frame of main is gone and the executor is shut down. The flag is
\* written again by the next main before anything reads it.
Leave ==
    /\ pc' = "idle"
    /\ idx' = 0
    /\ total' = 0
    /\ CHECK_IMAGES' = FALSE
    /\ taskA' = NoTaskA
    /\ taskB' = NoTaskB
    /\ cmp' = NoCmp
    /\ report' = Past(report)

\* An exception leaves the loop of main in the middle of an item.
Abandon ==
    /\ Leave
    /\ ItemOver(tmpAmazon, tmpIcepim, downloads)

\* run_parser, lines 1213-1263: the two checks, then the worker thread.
run_parser ==
    /\ pc = "idle"
    /\ \E links_exist \in BOOLEAN, credentials \in BOOLEAN :
          pc' = IF links_exist /\ credentials THEN "thread" ELSE "idle"
    /\ UNCHANGED <<CHECK_IMAGES, total, idx, report, taskA, taskB, cmp>>
    /\ UNCHANGED <<ivars, hvars, dvars>>

\* thread_target, line 1254: the call of init_drivers().
thread_target ==
    /\ pc = "thread"
    /\ ipc[Worker] = "idle"
    /\ pc' = "init1"
    /\ ipc' = [ipc EXCEPT ![Worker] = "drv_A"]
    /\ entry' = [entry EXCEPT ![Worker] = "init_drivers"]
    /\ UNCHANGED <<amazon_driver, icepim_driver, loggedIn, lock, hvars>>
    /\ UNCHANGED <<CHECK_IMAGES, total, idx, report, taskA, taskB, cmp>>
    /\ UNCHANGED dvars

\* The steps of init_drivers taken by the worker thread.
worker_init ==
    /\ pc \in {"init1", "init2"}
    /\ InitStep(Worker)
    /\ UNCHANGED <<hvars, rvars, dvars>>

\* A faulty variant of init_raised: the exception is swallowed and the run
\* goes on to the report.
init_ignored ==
    /\ pc \in {"init1", "init2"}
    /\ ipc[Worker] = "raised"
    /\ ipc' = [ipc EXCEPT ![Worker] = "idle"]
    /\ pc' = "header"
    /\ total' = 1
    /\ UNCHANGED <<amazon_driver, icepim_driver, loggedIn, lock, entry, hvars>>
    /\ UNCHANGED <<CHECK_IMAGES, idx, report, taskA, taskB, cmp>>
    /\ UNCHANGED dvars

\* thread_target, lines 1257-1261: an exception of init_drivers(), at line
\* 1254 or at line 1059 of main, ends the run.
init_raised ==
    /\ pc \in {"init1", "init2"}
    /\ ipc[Worker] = "raised"
    /\ ipc' = [ipc EXCEPT ![Worker] = "idle"]
    /\ Leave
    /\ UNCHANGED <<amazon_driver, icepim_driver, loggedIn, lock, entry, hvars>>
    /\ UNCHANGED dvars

\* thread_target, line 1255: init_drivers() returned, main() is called.
call_main ==
    /\ pc = "init1"
    /\ ipc[Worker] = "ret"
    /\ ipc' = [ipc EXCEPT ![Worker] = "idle"]
    /\ pc' = "main"
    /\ UNCHANGED <<amazon_driver, icepim_driver, loggedIn, lock, entry, hvars>>
    /\ UNCHANGED <<CHECK_IMAGES, total, idx, report, taskA, taskB, cmp>>
    /\ UNCHANGED dvars

\* main, lines 1008-1059: the flag is read from the GUI, then the links
\* file and the credentials are checked as they are at that moment; a
\* missing one returns from main, otherwise init_drivers() is called.
main_setup ==
    /\ pc = "main"
    /\ \E images \in BOOLEAN, links_exist \in BOOLEAN, credentials \in BOOLEAN :
          \/ /\ ~(links_exist /\ credentials)
             /\ Leave
             /\ UNCHANGED <<ipc, entry>>
          \/ /\ links_exist /\ credentials
             /\ CHECK_IMAGES' = images
             /\ pc' = "init2"
             /\ ipc' = [ipc EXCEPT ![Worker] = "drv_A"]
             /\ entry' = [entry EXCEPT ![Worker] = "init_drivers"]
             /\ UNCHANGED <<total, idx, report, taskA, taskB, cmp>>
    /\ UNCHANGED <<amazon_driver, icepim_driver, loggedIn, lock, hvars>>
    /\ UNCHANGED dvars

\* main, lines 1064-1071: the work list is read; an empty one returns.
main_read ==
    /\ pc = "init2"
    /\ ipc[Worker] = "ret"
    /\ ipc' = [ipc EXCEPT ![Worker] = "idle"]
    /\ \E n \in 0 .. MaxItems :
          \/ /\ n = 0
             /\ Leave
          \/ /\ n > 0
             /\ total' = n
             /\ pc' = "header"
             /\ UNCHANGED <<CHECK_IMAGES, idx, report, taskA, taskB, cmp>>
    /\ UNCHANGED <<amazon_driver, icepim_driver, loggedIn, lock, entry, hvars>>
    /\ UNCHANGED dvars

\* main, lines 1073-1084: the report is opened with mode "w" and the header
\* written; the open raises when the file cannot be written.
main_header ==
    /\ pc = "header"
    /\ \/ /\ report' = WriteHeader(report)
          /\ pc' = "loop"
          /\ UNCHANGED <<CHECK_IMAGES, total, idx, taskA, taskB, cmp>>
       \/ Leave
    /\ UNCHANGED <<ivars, hvars, dvars>>

\* main, line 1086: the for statement takes the next row, or the loop ends.
main_loop ==
    /\ pc = "loop"
    /\ IF idx < total
         THEN /\ idx' = idx + 1
              /\ pc' = "submit_amazon"
         ELSE /\ pc' = "finish"
              /\ UNCHANGED idx
    /\ UNCHANGED <<CHECK_IMAGES, total, report, taskA, taskB, cmp>>
    /\ UNCHANGED <<ivars, hvars, dvars>>

\* main, line 1095: executor.submit(process_amazon, ...) starts the task.
submit_amazon ==
    /\ pc = "submit_amazon"
    /\ taskA' = [NoTaskA EXCEPT !["st"] = "start"]
    /\ pc' = "submit_icepim"
    /\ UNCHANGED <<CHECK_IMAGES, total, idx, report, taskB, cmp>>
    /\ UNCHANGED <<ivars, hvars, dvars>>

\* main, line 1096: executor.submit(process_icepim, ...) starts the task.
submit_icepim ==
    /\ pc = "submit_icepim"
    /\ taskB' = [NoTaskB EXCEPT !["st"] = "start"]
    /\ pc' = "result_amazon"
    /\ UNCHANGED <<CHECK_IMAGES, total, idx, report, taskA, cmp>>
    /\ UNCHANGED <<ivars, hvars, dvars>>

\* ------------------------------------------------------- the fetch tasks
\* process_amazon, lines 976-983: amazon_driver.get(amazon_url) is outside
\* every try block and raises on a driver error; parse_amazon catches its
\* own exceptions and returns a snapshot.
process_amazon ==
    /\ taskA["st"] = "start"
    /\ \/ taskA' = [taskA EXCEPT !["st"] = "raised"]
       \/ \E found \in AmazonSnapshots :
          \E snap \in WithVideos(found, FoundAmazon, CHECK_VIDEOS, AmazonVideos) :
             taskA' = [taskA EXCEPT !["data"] = snap,
                                    !["st"] = IF CHECK_IMAGES THEN "images" ELSE "done"]
    /\ UNCHANGED <<pc, CHECK_IMAGES, total, idx, report, taskB, cmp>>
    /\ UNCHANGED <<ivars, hvars, dvars>>

\* process_amazon, lines 985-989, with download_amazon_images (678-764):
\* the folder is made first; driver.refresh(), the wait for productTitle
\* and driver.page_source are outside the try blocks and may raise.
download_amazon_images ==
    /\ taskA["st"] = "images"
    /\ tmpAmazon' = tmpAmazon \cup {"own"}
    /\ \/ taskA' = [taskA EXCEPT !["folder"] = {"own"}, !["st"] = "done"]
       \/ taskA' = [taskA EXCEPT !["st"] = "raised"]
    /\ UNCHANGED <<pc, CHECK_IMAGES, total, idx, report, taskB, cmp>>
    /\ UNCHANGED <<tmpIcepim, downloads, pending>>
    /\ UNCHANGED <<ivars, hvars>>

\* process_icepim, lines 991-997, with parse_icepim (527-595), whose whole
\* body is inside try/except: it always returns a snapshot.
process_icepim ==
    /\ taskB["st"] = "start"
    /\ \E found \in IcepimSnapshots :
       \E snap \in WithVideos(found, FoundIcepim, CHECK_VIDEOS, IcepimVideos) :
          taskB' = [taskB EXCEPT
                       !["data"] = snap,
                       !["st"] = IF CHECK_IMAGES /\ snap["status"] = "Approved"
                                   THEN "modal" ELSE "done"]
    /\ UNCHANGED <<pc, CHECK_IMAGES, total, idx, report, taskA, cmp>>
    /\ UNCHANGED <<ivars, hvars, dvars>>

\* download_icepim_images, lines 769-798: the modal does not open or the
\* click fails (None, None), or the click asks the browser for the archive;
\* at most MaxZips archives are outstanding at a time.
download_icepim_request ==
    /\ taskB["st"] = "modal"
    /\ \/ /\ taskB' = [taskB EXCEPT !["st"] = "done"]
          /\ UNCHANGED pending
       \/ /\ Outstanding < MaxZips
          /\ taskB' = [taskB EXCEPT !["st"] = "wait"]
          /\ pending' = [pending EXCEPT !["own"] = 1]
    /\ UNCHANGED <<pc, CHECK_IMAGES, total, idx, report, taskA, cmp>>
    /\ UNCHANGED <<tmpAmazon, tmpIcepim, downloads>>
    /\ UNCHANGED <<ivars, hvars>>

\* The file to take out of the download directory, max(files, key=mtime),
\* as its position in the directory.
Newest(files) == Len(files)

\* download_icepim_images, lines 800-814: the wait loop takes the newest
\* .zip of the download directory as soon as there is one, makes the
\* extract folder and extracts (ZipFile raises on a bad archive); with no
\* .zip in the directory for 120 seconds it returns (None, None).
download_icepim_wait ==
    /\ taskB["st"] = "wait"
    /\ \/ /\ downloads # <<>>
          /\ tmpIcepim' = tmpIcepim \cup {"own"}
          /\ \/ taskB' = [taskB EXCEPT !["folder"] = {"own"},
                                       !["zip"] = {Newest(downloads)},
                                       !["st"] = "done"]
             \/ taskB' = [taskB EXCEPT !["st"] = "raised"]
       \/ /\ downloads = <<>>
          /\ taskB' = [taskB EXCEPT !["st"] = "done"]
          /\ UNCHANGED tmpIcepim
    /\ UNCHANGED <<pc, CHECK_IMAGES, total, idx, report, taskA, cmp>>
    /\ UNCHANGED <<tmpAmazon, downloads, pending>>
    /\ UNCHANGED <<ivars, hvars>>

\* The browser finishes a download it was asked for: the archive appears
\* in DOWNLOAD_DIR (setup_driver, line 140) with the newest mtime.
zip_arrives ==
    /\ \E tag \in {"own", "stale"} :
          /\ pending[tag] > 0
          /\ pending' = [pending EXCEPT ![tag] = @ - 1]
          /\ downloads' = Append(downloads, tag)
    /\ UNCHANGED <<tmpAmazon, tmpIcepim>>
    /\ UNCHANGED <<ivars, hvars, rvars>>

\* ----------------------------------------------------- main, after submit
\* main, line 1098: future_amazon.result() waits for the task and raises
\* what the task raised.
result_amazon ==
    /\ pc = "result_amazon"
    /\ Finished(taskA)
    /\ pc' = IF taskA["st"] = "raised" THEN "exit_raise" ELSE "result_icepim"
    /\ UNCHANGED <<CHECK_IMAGES, total, idx, report, taskA, taskB, cmp>>
    /\ UNCHANGED <<ivars, hvars, dvars>>

\* main, line 1099: future_icepim.result().
result_icepim ==
    /\ pc = "result_icepim"
    /\ Finished(taskB)
    /\ pc' = IF taskB["st"] = "raised" THEN "exit_raise" ELSE "exit_ok"
    /\ UNCHANGED <<CHECK_IMAGES, total, idx, report, taskA, taskB, cmp>>
    /\ UNCHANGED <<ivars, hvars, dvars>>

\* main, line 1094: leaving the with block is executor.shutdown(wait=True),
\* on the normal way out and on an exception; then the exception goes on to
\* thread_target.
executor_exit ==
    /\ pc \in {"exit_ok", "exit_raise"}
    /\ Finished(taskA)
    /\ Finished(taskB)
    /\ IF pc = "exit_raise"
         THEN Abandon
         ELSE /\ pc' = "images"
              /\ UNCHANGED <<CHECK_IMAGES, total, idx, report, taskA, taskB, cmp>>
              /\ UNCHANGED dvars
    /\ UNCHANGED <<ivars, hvars>>

\* main, lines 1101-1112, with compare_images_by_name_strict (837-896): a
\* missing source-B folder is a mismatch, otherwise the files decide; the
\* archive of a mismatch is copied (shutil.copy2 raises when it cannot).
compare_images ==
    /\ pc = "images"
    /\ \/ /\ ~CHECK_IMAGES
          /\ cmp' = [cmp EXCEPT !["images"] = Verdict(TRUE)]
          /\ pc' = "text"
          /\ UNCHANGED <<CHECK_IMAGES, total, idx, report, taskA, taskB>>
          /\ UNCHANGED dvars
       \/ /\ CHECK_IMAGES
          /\ \E images_match \in BOOLEAN :
                /\ taskB["folder"] = {} => ~images_match
                /\ cmp' = [cmp EXCEPT !["images"] = Verdict(images_match)]
          /\ pc' = "text"
          /\ UNCHANGED <<CHECK_IMAGES, total, idx, report, taskA, taskB>>
          /\ UNCHANGED dvars
       \/ /\ CHECK_IMAGES
          /\ taskB["zip"] # {}
          /\ Abandon
    /\ UNCHANGED <<ivars, hvars>>

\* A faulty variant of ExportCalled: the bullets are not looked at.
ExportCalledOnTitle(enabled, title_match, bullets_match) ==
    enabled /\ ~title_match

\* main, line 1126: whether export_to_amazon_if_needed is called.
ExportCalled(enabled, title_match, bullets_match) ==
    enabled /\ (~title_match \/ ~bullets_match)

\* export_to_amazon_if_needed, lines 901-971: the ways the call can end. It
\* returns at once when both match, returns when the locale of the URL is
\* not in locale_map, and otherwise works the export dialog inside a try
\* whose except logs whatever is raised; it never raises.
export_to_amazon_if_needed(title_match, bullets_match) ==
    IF title_match /\ bullets_match
      THEN {"not needed"}
      ELSE {"unsupported", "error", "started"}

\* main, lines 1114-1127: the two text verdicts, and the export of a
\* difference when the export is enabled.
compare_text ==
    /\ pc = "text"
    /\ LET title_match == TitleMatch(taskA["data"], taskB["data"])
           bullets_match == BulletsMatch(taskA["data"], taskB["data"])
       IN  /\ cmp' = [cmp EXCEPT !["title"] = Verdict(title_match),
                                 !["bullets"] = Verdict(bullets_match)]
           /\ IF ExportCalled(EXPORT_ENABLED, title_match, bullets_match)
                THEN export' \in export_to_amazon_if_needed(title_match, bullets_match)
                ELSE export' = "none"
    /\ pc' = "row"
    /\ UNCHANGED <<CHECK_IMAGES, total, idx, report, taskA, taskB>>
    /\ UNCHANGED <<ivars, setupRuns, setupDone, fvars, EXPORT_ENABLED, CHECK_VIDEOS, dl, ident, dvars>>

\* main, lines 1129-1180: the row is appended to the report; the open
\* raises when the file cannot be written.
write_row ==
    /\ pc = "row"
    /\ \/ /\ report' = AppendRow(report,
                   Row(idx, cmp, taskB["data"]["status"]) @@
                      [video |-> VideoStatus(VideoFields(taskA["data"]),
                                             VideoFields(taskB["data"]))["status"]])
          /\ pc' = "cleanup"
          /\ UNCHANGED <<CHECK_IMAGES, total, idx, taskA, taskB, cmp>>
          /\ UNCHANGED dvars
       \/ Abandon
    /\ UNCHANGED <<ivars, hvars>>

\* os.remove(zip_path): the directory without the files at the positions gone.
RECURSIVE Without(_, _, _)
Without(files, gone, n) ==
    IF n > Len(files) THEN <<>>
    ELSE IF n \in gone THEN Without(files, gone, n + 1)
    ELSE <<files[n]>> \o Without(files, gone, n + 1)

\* main, lines 1182-1189: the two folders and the archive the tasks
\* returned are removed, and the iteration ends.
cleanup ==
    /\ pc = "cleanup"
    /\ ItemOver(tmpAmazon \ taskA["folder"], tmpIcepim \ taskB["folder"],
                Without(downloads, taskB["zip"], 1))
    /\ taskA' = NoTaskA
    /\ taskB' = NoTaskB
    /\ cmp' = NoCmp
    /\ pc' = "loop"
    /\ UNCHANGED <<CHECK_IMAGES, total, idx, report>>
    /\ UNCHANGED <<ivars, hvars>>

\* main, lines 1191-1199: the summary, and shutil.rmtree("downloads").
main_finish ==
    /\ pc = "finish"
    /\ downloads' = <<>>
    /\ Leave
    /\ UNCHANGED <<tmpAmazon, tmpIcepim, pending>>
    /\ UNCHANGED <<ivars, hvars>>

\* -------------------------------------------------------- specifications
Init ==
    /\ pc = "idle"
    /\ CHECK_IMAGES = FALSE
    /\ total = 0
    /\ idx = 0
    /\ amazon_driver = None
    /\ icepim_driver = None
    /\ loggedIn = FALSE
    /\ lock = {}
    /\ ipc = [c \in Threads |-> "idle"]
    /\ entry = [c \in Threads |-> "none"]
    /\ setupRuns = [s \in Sources |-> 0]
    /\ setupDone = [s \in Sources |-> 0]
    /\ report = NoReport
    /\ taskA = NoTaskA
    /\ taskB = NoTaskB
    /\ cmp = NoCmp
    /\ tmpAmazon = {}
    /\ tmpIcepim = {}
    /\ downloads = <<>>
    /\ pending = NoPending
    /\ amazon_folder = NoFolder
    /\ icepim_folder = NoFolder
    /\ dl = NoDownload
    /\ ident = NoIdent
    /\ EXPORT_ENABLED = FALSE
    /\ CHECK_VIDEOS = FALSE
    /\ export = "none"

Next ==
    \/ run_parser
    \/ thread_target
    \/ worker_init
    \/ init_raised
    \/ call_main
    \/ main_setup
    \/ main_read
    \/ main_header
    \/ main_loop
    \/ submit_amazon
    \/ submit_icepim
    \/ process_amazon
    \/ download_amazon_images
    \/ process_icepim
    \/ download_icepim_request
    \/ download_icepim_wait
    \/ zip_arrives
    \/ result_amazon
    \/ result_icepim
    \/ executor_exit
    \/ compare_images
    \/ compare_text
    \/ write_row
    \/ cleanup
    \/ main_finish

Spec == Init /\ [][Next]_vars


\* The history variables: a step of caller c out of the test-and-setup
\* statement that did not find a session executed setup_driver.
Executed(c, s) ==
    /\ ipc[c] = (IF s = "amazon" THEN "amz_crit" ELSE "ice_crit")
    /\ ipc'[c] \in {"amz_get", "ice_login", "raised"}

Returned(c, s) ==
    /\ ipc[c] = (IF s = "amazon" THEN "amz_crit" ELSE "ice_crit")
    /\ ipc'[c] \in {"amz_get", "ice_login"}

Count(c) ==
    /\ setupRuns' = [s \in Sources |-> IF Executed(c, s) THEN Bump(setupRuns[s]) ELSE setupRuns[s]]
    /\ setupDone' = [s \in Sources |-> IF Returned(c, s) THEN Bump(setupDone[s]) ELSE setupDone[s]]

\* What a step of caller c of the concurrent specification leaves alone.
Aside(c) == Count(c) /\ UNCHANGED <<rvars, dvars, fvars, xvars, dl, ident>>

\* Threads calling the three init functions at the same time.
NextInit ==
    \/ \E c \in Callers : call_init_drivers(c) /\ Aside(c)
    \/ \E c \in Callers : call_init_amazon_driver(c) /\ Aside(c)
    \/ \E c \in Callers : call_init_icepim_driver(c) /\ Aside(c)
    \/ \E c \in Callers : init_drivers_amazon(c) /\ Aside(c)
    \/ \E c \in Callers : init_drivers_icepim(c) /\ Aside(c)
    \/ \E c \in Callers : amazon_acquire(c) /\ Aside(c)
    \/ \E c \in Callers : amazon_setup(c) /\ Aside(c)
    \/ \E c \in Callers : amazon_get(c) /\ Aside(c)
    \/ \E c \in Callers : icepim_acquire(c) /\ Aside(c)
    \/ \E c \in Callers : icepim_setup(c) /\ Aside(c)
    \/ \E c \in Callers : login_icepim(c) /\ Aside(c)
    \/ \E c \in Callers : caller_done(c) /\ Aside(c)

SpecInit == Init /\ [][NextInit]_vars

\* ---------------------------------------------- the text comparison alone
\* What the specifications of a single function leave as Init has it.
Quiet ==
    /\ amazon_driver = None
    /\ icepim_driver = None
    /\ loggedIn = FALSE
    /\ lock = {}
    /\ ipc = [c \in Threads |-> "idle"]
    /\ entry = [c \in Threads |-> "none"]
    /\ setupRuns = [s \in Sources |-> 0]
    /\ setupDone = [s \in Sources |-> 0]
    /\ tmpAmazon = {}
    /\ tmpIcepim = {}
    /\ downloads = <<>>
    /\ pending = NoPending

\* Titles of up to MaxText characters: a letter in both cases, a
\* whitespace and a character of the punctuation class.
TextChars == {"a", "A", " ", "."}

Texts == UNION {[1 .. k -> TextChars] : k \in 0 .. MaxText}

\* Bullet lists of up to MaxBullets bullets.
BulletTexts == {<<"a">>, <<"A", ".">>, <<"a", "a">>}

BulletLists == UNION {[1 .. k -> BulletTexts] : k \in 1 .. MaxBullets}

\* main stands at line 1114 with the two snapshots of the first item.
AtText(a, b) ==
    /\ pc = "text"
    /\ CHECK_IMAGES = FALSE
    /\ total = 1
    /\ idx = 1
    /\ report = WriteHeader(NoReport)
    /\ taskA = [st |-> "done", data |-> a, folder |-> {}]
    /\ taskB = [st |-> "done", data |-> b, folder |-> {}, zip |-> {}]
    /\ cmp = [NoCmp EXCEPT !["images"] = Verdict(TRUE)]

InitText ==
    /\ Quiet
    /\ amazon_folder = NoFolder
    /\ icepim_folder = NoFolder
    /\ dl = NoDownload
    /\ ident = NoIdent
    /\ EXPORT_ENABLED = FALSE
    /\ CHECK_VIDEOS = FALSE
    /\ export = "none"
    /\ \/ \E ta \in Texts, tb \in Texts :
             AtText([title |-> ta, bullets |-> <<NOT_FOUND>>],
                    [title |-> tb, bullets |-> <<NOT_FOUND>>, status |-> "Draft"])
       \/ \E ba \in BulletLists, bb \in BulletLists :
             AtText([title |-> NOT_FOUND, bullets |-> ba],
                    [title |-> NOT_FOUND, bullets |-> bb, status |-> "Draft"])

NextText == compare_text

SpecText == InitText /\ [][NextText]_vars

\* ------------------------------------------- the gallery comparison alone
\* A file of a folder is its base name, its extension and what get_dhash
\* (833-835) returns for it: the hexadecimal digits of the hash, or <<>>
\* for None, when no foreground was found or the file could not be read.
IMAGE_THRESHOLD == 3

HexDigits == {"0", "7", "f"}

Bits(d) ==
    CASE d = "0" -> <<0, 0, 0, 0>>
      [] d = "7" -> <<0, 1, 1, 1>>
      [] d = "f" -> <<1, 1, 1, 1>>

Hashes == [1 .. MaxHex -> HexDigits]

get_dhash(f) == f["hash"]

Shorter(m, n) == IF m < n THEN m ELSE n

\* line 862: sum(c1 != c2 for c1, c2 in zip(h1, h2)) over the two strings.
Dist(h1, h2) == Cardinality({k \in 1 .. Shorter(Len(h1), Len(h2)) : h1[k] # h2[k]})

\* A faulty variant of PairStatus: a failed hash counts as no difference.
PairStatusNoError(h1, h2) ==
    IF h1 # <<>> /\ h2 # <<>> /\ Dist(h1, h2) > IMAGE_THRESHOLD THEN "DIFFER" ELSE "MATCH"

\* lines 859-868: the status of one pair of files.
PairStatus(h1, h2) ==
    IF h1 # <<>> /\ h2 # <<>>
      THEN IF Dist(h1, h2) <= IMAGE_THRESHOLD THEN "MATCH" ELSE "DIFFER"
      ELSE "ERROR"

\* lines 843-847: the listings, filtered by extension, as base -> file.
AmazonFiles(folder) == {f \in folder["files"] : f["ext"] \in {".jpg", ".jpeg"}}

IcepimFiles(folder) == {f \in folder["files"] : f["ext"] \in {".jpg", ".jpeg", ".png"}}

FileOf(files, base) == CHOOSE f \in files : f["base"] = base

BasesOf(files) == {f["base"] : f \in files}

\* compare_images_by_name_strict, lines 837-896.
compare_images_by_name_strict(a_folder, i_folder) ==
    IF ~i_folder["exists"]
      THEN [images_match |-> FALSE, amazon_count |-> 0, pim_count |-> 0,
            matched |-> 0, total_pairs |-> 0]
      ELSE LET a_files == AmazonFiles(a_folder)
               i_files == IcepimFiles(i_folder)
               pairs == BasesOf(a_files) \cap BasesOf(i_files)
               good == {b \in pairs :
                           PairStatus(get_dhash(FileOf(a_files, b)),
                                      get_dhash(FileOf(i_files, b))) = "MATCH"}
           IN  [images_match |-> /\ Cardinality(a_files) = Cardinality(i_files)
                                 /\ Cardinality(good) = Cardinality(pairs),
                amazon_count |-> Cardinality(a_files),
                pim_count |-> Cardinality(i_files),
                matched |-> Cardinality(good),
                total_pairs |-> Cardinality(pairs)]

\* Folders of up to MaxFiles files with different base names; a hash is
\* all zeros, all ones, or missing.
Bases == 1 .. MaxFiles

FewHashes == {<<>>, [k \in 1 .. MaxHex |-> "0"], [k \in 1 .. MaxHex |-> "f"]}

FilesOn(bases) ==
    {{[base |-> b, ext |-> pick[b][1], hash |-> pick[b][2]] : b \in bases} :
        pick \in [bases -> {".jpg", ".png"} \X FewHashes]}

Folders == {[exists |-> TRUE, files |-> fs] : fs \in UNION {FilesOn(bs) : bs \in SUBSET Bases}}

OneFile(h) == [exists |-> TRUE, files |-> {[base |-> 1, ext |-> ".jpg", hash |-> h]}]

\* main stands at line 1101 with image checks on.
AtImages ==
    /\ pc = "images"
    /\ CHECK_IMAGES = TRUE
    /\ total = 1
    /\ idx = 1
    /\ report = WriteHeader(NoReport)
    /\ taskA = [st |-> "done", data |-> DegradedAmazon, folder |-> {}]
    /\ taskB = [st |-> "done", data |-> ErrorIcepim, folder |-> {}, zip |-> {}]
    /\ cmp = NoCmp

InitImages ==
    /\ Quiet
    /\ dl = NoDownload
    /\ ident = NoIdent
    /\ EXPORT_ENABLED = FALSE
    /\ CHECK_VIDEOS = FALSE
    /\ export = "none"
    /\ AtImages
    /\ \/ \E h1 \in Hashes, h2 \in Hashes :
             amazon_folder = OneFile(h1) /\ icepim_folder = OneFile(h2)
       \/ \E a \in Folders, i \in Folders \cup {NoFolder} :
             amazon_folder = a /\ icepim_folder = i

\* main, lines 1101-1104, on the two folders of the state.
call_compare_images ==
    /\ pc = "images"
    /\ CHECK_IMAGES
    /\ cmp' = [cmp EXCEPT !["images"] =
                  Verdict(compare_images_by_name_strict(amazon_folder,
                                                        icepim_folder)["images_match"])]
    /\ pc' = "text"
    /\ UNCHANGED <<CHECK_IMAGES, total, idx, report, taskA, taskB>>
    /\ UNCHANGED <<ivars, hvars, dvars>>

NextImages == call_compare_images

SpecImages == InitImages /\ [][NextImages]_vars

\* --------------------------------------------- the video comparison alone
\* Duration lists of up to MaxDur entries, and the two counts.
AmazonDurations == UNION {[1 .. k -> Durations] : k \in 0 .. MaxDur}

IcepimDurations == UNION {[1 .. k -> Durations \cup Sentinels] : k \in 0 .. MaxDur}

VideoCounts == {0, MaxDur}

\* main stands at line 1129 with the video fields of the two snapshots.
InitVideo ==
    /\ Quiet
    /\ amazon_folder = NoFolder
    /\ icepim_folder = NoFolder
    /\ dl = NoDownload
    /\ ident = NoIdent
    /\ EXPORT_ENABLED = FALSE
    /\ CHECK_VIDEOS = TRUE
    /\ export = "none"
    /\ pc = "video"
    /\ CHECK_IMAGES = FALSE
    /\ total = 1
    /\ idx = 1
    /\ report = WriteHeader(NoReport)
    /\ cmp = [title |-> "MATCH", bullets |-> "MATCH", images |-> "MATCH",
              video_status |-> "-", missing |-> <<>>]
    /\ \E da \in AmazonDurations, db \in IcepimDurations,
          ca \in VideoCounts, cb \in VideoCounts :
          /\ taskA = [st |-> "done", folder |-> {},
                      data |-> [title |-> NOT_FOUND, bullets |-> <<NOT_FOUND>>,
                                videos_count |-> ca, videos_durations |-> da]]
          /\ taskB = [st |-> "done", folder |-> {}, zip |-> {},
                      data |-> [title |-> NOT_FOUND, bullets |-> <<NOT_FOUND>>,
                                status |-> "Draft",
                                videos_count |-> cb, videos_durations |-> db]]

\* main, lines 1129-1152, on the two snapshots of the state.
compare_video ==
    /\ pc = "video"
    /\ cmp' = [cmp EXCEPT
                  !["video_status"] = VideoStatus(taskA["data"], taskB["data"])["status"],
                  !["missing"] = VideoStatus(taskA["data"], taskB["data"])["missing"]]
    /\ pc' = "row"
    /\ UNCHANGED <<CHECK_IMAGES, total, idx, report, taskA, taskB>>
    /\ UNCHANGED <<ivars, hvars, dvars>>

NextVideo == compare_video

SpecVideo == InitVideo /\ [][NextVideo]_vars

\* ----------------------------------------------- the export of a difference
\* main stands at line 1114 with the first of two items, the export box
\* ticked or not.
InitExport ==
    /\ Quiet
    /\ amazon_folder = NoFolder
    /\ icepim_folder = NoFolder
    /\ dl = NoDownload
    /\ ident = NoIdent
    /\ EXPORT_ENABLED \in BOOLEAN
    /\ CHECK_VIDEOS = FALSE
    /\ export = "none"
    /\ pc = "text"
    /\ CHECK_IMAGES = FALSE
    /\ total = 2
    /\ idx = 1
    /\ report = WriteHeader(NoReport)
    /\ cmp = [NoCmp EXCEPT !["images"] = Verdict(TRUE)]
    /\ \E ta \in BulletTexts, tb \in BulletTexts, ba \in BulletLists, bb \in BulletLists :
          /\ taskA = [st |-> "done", data |-> [title |-> ta, bullets |-> ba], folder |-> {}]
          /\ taskB = [st |-> "done", folder |-> {}, zip |-> {},
                      data |-> [title |-> tb, bullets |-> bb, status |-> "Draft"]]

\* The rest of the iteration and the step to the next item.
NextExport ==
    \/ compare_text
    \/ write_row
    \/ cleanup
    \/ main_loop

SpecExport == InitExport /\ [][NextExport]_vars

\* ------------------------------------------- the image downloads alone
\* download_amazon_images from line 744 on: n urls to fetch into the folder
\* tmp_amazon_<asin>, which os.makedirs(folder, exist_ok=True) (line 680)
\* made or found; a folder that was found may hold the files a comparison
\* that was left by an exception did not remove. For the asset at position
\* i the file <asin>.MAIN.jpg or <asin>.PT<i>.jpg is absent, a file of an
\* earlier call ("stale"), the downloaded image, or an empty file.
Positions == 1 .. MaxUrls

range3 == 3

\* A faulty variant of Placeholder: the file is truncated.
PlaceholderTruncating(file) == "empty"

\* line 762: open(path, 'a').close() makes the file when there is none and
\* leaves an existing file as it is.
Placeholder(file) == IF file = "absent" THEN "empty" ELSE file

InitDownload ==
    /\ Quiet
    /\ ident = NoIdent
    /\ amazon_folder = NoFolder
    /\ icepim_folder = NoFolder
    /\ EXPORT_ENABLED = FALSE
    /\ CHECK_VIDEOS = FALSE
    /\ export = "none"
    /\ pc = "result_amazon"
    /\ CHECK_IMAGES = TRUE
    /\ total = 1
    /\ idx = 1
    /\ report = WriteHeader(NoReport)
    /\ taskA = [st |-> "images", data |-> DegradedAmazon, folder |-> {}]
    /\ taskB = [st |-> "done", data |-> ErrorIcepim, folder |-> {}, zip |-> {}]
    /\ cmp = NoCmp
    /\ \E n \in 0 .. MaxUrls, found \in [Positions -> {"absent", "stale"}] :
          dl = [st |-> "for", n |-> n, i |-> 1, retry |-> 0,
                files |-> found,
                requests |-> [k \in Positions |-> 0],
                ok |-> [k \in Positions |-> FALSE],
                placed |-> [k \in Positions |-> FALSE]]

\* lines 749-760: one pass of the retry loop, requests.get with
\* raise_for_status raising or not; the file is written and the loop left
\* on success.
dl_attempt ==
    /\ dl["st"] = "for"
    /\ dl["i"] <= dl["n"]
    /\ dl["retry"] < range3
    /\ \E success \in BOOLEAN :
          dl' = IF success
                  THEN [dl EXCEPT !["files"][dl["i"]] = "image",
                                  !["requests"][dl["i"]] = @ + 1,
                                  !["ok"][dl["i"]] = TRUE,
                                  !["i"] = @ + 1,
                                  !["retry"] = 0]
                  ELSE [dl EXCEPT !["requests"][dl["i"]] = @ + 1,
                                  !["retry"] = @ + 1]
    /\ UNCHANGED <<ivars, setupRuns, setupDone, fvars, xvars, ident, rvars, dvars>>

\* lines 761-762: the else of the retry loop, reached when no pass broke.
dl_else ==
    /\ dl["st"] = "for"
    /\ dl["i"] <= dl["n"]
    /\ dl["retry"] = range3
    /\ dl' = [dl EXCEPT !["files"][dl["i"]] = Placeholder(@),
                        !["placed"][dl["i"]] = TRUE,
                        !["i"] = @ + 1,
                        !["retry"] = 0]
    /\ UNCHANGED <<ivars, setupRuns, setupDone, fvars, xvars, ident, rvars, dvars>>

\* line 764: return folder.
dl_return ==
    /\ dl["st"] = "for"
    /\ dl["i"] > dl["n"]
    /\ dl' = [dl EXCEPT !["st"] = "returned"]
    /\ UNCHANGED <<ivars, setupRuns, setupDone, fvars, xvars, ident, rvars, dvars>>

NextDownload ==
    \/ dl_attempt
    \/ dl_else
    \/ dl_return

SpecDownload == InitDownload /\ [][NextDownload]_vars

\* --------------------------------------------------- the names of an item
\* The amazon_url of a row as its characters. The pattern of lines 977, 998
\* and 1087 is /dp/([A-Z0-9]{10}): "B" stands for the capital letters, "0"
\* for the digits, "b" and "?" for the characters outside the class.
IdLen == 10

IdChars == {"B", "0"}

Dp == <<"/", "d", "p", "/">>

Repeat(c, n) == [k \in 1 .. n |-> c]

UrlHeads == {<<>>, Dp, <<"/", "g", "p", "/">>, Dp \o <<"b">> \o Dp}

UrlBodies ==
    {Repeat("B", IdLen),
     Repeat("B", IdLen - 1),
     Repeat("B", IdLen - 1) \o <<"0">> \o <<"B">>,
     Repeat("0", 4) \o <<"b">> \o Repeat("0", IdLen - 5)}

UrlTails == {<<>>, <<"?">>}

Urls == {h \o b \o t : h \in UrlHeads, b \in UrlBodies, t \in UrlTails}

\* re.search: the group of the leftmost match; NoMatch stands for the None
\* of no match, and for an asin not computed yet.
NoMatch == <<>>

re_search(url) ==
    LET starts == {k \in 1 .. Len(url) :
                      /\ k + 3 + IdLen <= Len(url)
                      /\ SubSeq(url, k, k + 3) = Dp
                      /\ \A j \in 1 .. IdLen : url[k + 3 + j] \in IdChars}
    IN  IF starts = {} THEN NoMatch
        ELSE LET k == CHOOSE x \in starts : \A y \in starts : x <= y
             IN  SubSeq(url, k + 4, k + 3 + IdLen)

\* lines 1087-1088 and 977-978: asin in main and in process_amazon.
AsinOf(url, i) ==
    IF re_search(url) = NoMatch THEN <<"unknown_", ToString(i)>> ELSE re_search(url)

\* lines 998-999: asin in process_icepim.
AsinOfIcepim(url, i) ==
    IF re_search(url) = NoMatch THEN <<"unknown">> ELSE re_search(url)

\* main is at line 1087 with a row of the work list.
InitIdentity ==
    /\ Quiet
    /\ amazon_folder = NoFolder
    /\ icepim_folder = NoFolder
    /\ dl = NoDownload
    /\ EXPORT_ENABLED = FALSE
    /\ CHECK_VIDEOS = FALSE
    /\ export = "none"
    /\ pc = "loop"
    /\ CHECK_IMAGES = TRUE
    /\ total = MaxItems
    /\ idx = 0
    /\ report = WriteHeader(NoReport)
    /\ taskA = NoTaskA
    /\ taskB = NoTaskB
    /\ cmp = NoCmp
    /\ \E url \in Urls, i \in 1 .. MaxItems, status \in {"Approved", "Draft"} :
          ident = [st |-> "for", url |-> url, idx |-> i, status |-> status,
                   row |-> NoMatch, amazon |-> NoMatch, icepim |-> NoMatch]

\* main, lines 1087-1088: the asin of the log, of the saved archive and of
\* the report row.
main_asin ==
    /\ ident["st"] = "for"
    /\ ident' = [ident EXCEPT !["row"] = AsinOf(ident["url"], ident["idx"]),
                              !["st"] = "tasks"]
    /\ UNCHANGED <<ivars, setupRuns, setupDone, fvars, xvars, dl, rvars, dvars>>

\* process_amazon, lines 977-978 and 987: the asin of tmp_amazon_<asin>.
process_amazon_asin ==
    /\ ident["st"] = "tasks"
    /\ ident["amazon"] = NoMatch
    /\ ident' = [ident EXCEPT !["amazon"] = AsinOf(ident["url"], ident["idx"])]
    /\ UNCHANGED <<ivars, setupRuns, setupDone, fvars, xvars, dl, rvars, dvars>>

\* process_icepim, lines 996-1000: the asin typed into the download dialog
\* and of tmp_icepim_<asin>, for an approved item with the image check on.
process_icepim_asin ==
    /\ ident["st"] = "tasks"
    /\ ident["icepim"] = NoMatch
    /\ ident' = [ident EXCEPT !["icepim"] =
                    IF CHECK_IMAGES /\ ident["status"] = "Approved"
                      THEN AsinOfIcepim(ident["url"], ident["idx"])
                      ELSE <<"-">>]
    /\ UNCHANGED <<ivars, setupRuns, setupDone, fvars, xvars, dl, rvars, dvars>>

NextIdentity ==
    \/ main_asin
    \/ process_amazon_asin
    \/ process_icepim_asin

SpecIdentity == InitIdentity /\ [][NextIdentity]_vars

\* ------------------------------------------------------ one run alone
\* main is at line 1086 in the first run of the process: the two sessions
\* are up, the header is written, the work list has 1 .. MaxItems rows and
\* the boxes of the window are ticked or not.
AtLoop(export_boxes, videos_boxes) ==
    /\ amazon_driver = Session
    /\ icepim_driver = Session
    /\ loggedIn = TRUE
    /\ lock = {}
    /\ ipc = [c \in Threads |-> "idle"]
    /\ entry = [c \in Threads |-> IF c = Worker THEN "init_drivers" ELSE "none"]
    /\ setupRuns = [s \in Sources |-> 0]
    /\ setupDone = [s \in Sources |-> 0]
    /\ tmpAmazon = {}
    /\ tmpIcepim = {}
    /\ downloads = <<>>
    /\ pending = NoPending
    /\ amazon_folder = NoFolder
    /\ icepim_folder = NoFolder
    /\ dl = NoDownload
    /\ ident = NoIdent
    /\ export = "none"
    /\ EXPORT_ENABLED \in export_boxes
    /\ CHECK_VIDEOS \in videos_boxes
    /\ CHECK_IMAGES \in BOOLEAN
    /\ total \in 1 .. MaxItems
    /\ idx = 0
    /\ pc = "loop"
    /\ report = WriteHeader(NoReport)
    /\ taskA = NoTaskA
    /\ taskB = NoTaskB
    /\ cmp = NoCmp

\* The loop of main, lines 1086-1199.
NextRun ==
    \/ main_loop
    \/ submit_amazon
    \/ submit_icepim
    \/ process_amazon
    \/ download_amazon_images
    \/ process_icepim
    \/ download_icepim_request
    \/ download_icepim_wait
    \/ zip_arrives
    \/ result_amazon
    \/ result_icepim
    \/ executor_exit
    \/ compare_images
    \/ compare_text
    \/ write_row
    \/ cleanup
    \/ main_finish

\* The runs without the video check, with the export or not.
InitRun == AtLoop(BOOLEAN, {FALSE})

SpecRun == InitRun /\ [][NextRun]_vars

\* The runs without the export, with the video check or not.
InitChecks == AtLoop({FALSE}, BOOLEAN)

NextChecks == NextRun

SpecChecks == InitChecks /\ [][NextChecks]_vars

\* ------------------------------------------------------------ properties
\* The positions of main inside the reconciliation of one item, inside the
\* loop, and before the report is opened.
ItemPcs ==
    {"submit_amazon", "submit_icepim", "result_amazon", "result_icepim",
     "exit_ok", "exit_raise", "images", "text", "row", "cleanup"}

LoopPcs == ItemPcs \cup {"loop", "finish"}

SetupPcs == {"idle", "thread", "init1", "main", "init2"}

\* The items of the run whose row has been written.
Written == IF pc \in {"loop", "finish", "cleanup"} THEN idx ELSE idx - 1

\* Line n of the report is the row of item n - 1, written by this run.
IsRowOf(rep, n) ==
    /\ rep["lines"][n]["kind"] = "row"
    /\ rep["lines"][n]["idx"] = n - 1
    /\ rep["lines"][n]["fresh"]

\* C1: when main() is left, by its return or by an exception, the report
\* holds the header and exactly one row for each of the total items.
C1_OneRowPerItem ==
    [][(pc \in LoopPcs /\ pc' = "idle")
          => /\ Len(report'["lines"]) = 1 + total
             /\ \A n \in 2 .. 1 + total :
                   /\ report'["lines"][n]["kind"] = "row"
                   /\ report'["lines"][n]["idx"] = n - 1]_vars

\* C2: neither fetch task of an item ever ends by raising.
C2_TasksNeverRaise == taskA["st"] # "raised" /\ taskB["st"] # "raised"

\* C3: at every point of the loop the rows of the report are those of the
\* items 1..k whose row has been written, in that order, and a step inside
\* the loop keeps every line and adds at most the row of the current item.
C3_RowsInOrder ==
    /\ [](pc \in LoopPcs =>
             /\ Len(report["lines"]) = 1 + Written
             /\ \A n \in 2 .. 1 + Written : IsRowOf(report, n))
    /\ [][(pc \in LoopPcs /\ pc' \in LoopPcs) =>
             \/ report' = report
             \/ /\ pc = "row"
                /\ Len(report'["lines"]) = Len(report["lines"]) + 1
                /\ SubSeq(report'["lines"], 1, Len(report["lines"])) = report["lines"]
                /\ report'["lines"][Len(report'["lines"])]["idx"] = idx]_vars

\* Two rows are in the report and the loop is at its head.
C3_Witness == pc = "loop" /\ idx = 2 /\ Len(report["lines"]) = 3

\* What the reconciliation of an item leaves on disk when it has removed
\* everything made for the item.
NotOwn(tag) == tag # "own"

\* C4: every step that ends the reconciliation of an item, normally or by
\* an exception, leaves no folder and no archive made for the item.
C4_RemovedOnEveryExit ==
    [][(pc \in ItemPcs /\ pc' \notin ItemPcs)
          => /\ tmpAmazon' = StaleFolders(tmpAmazon \ {"own"})
             /\ tmpIcepim' = StaleFolders(tmpIcepim \ {"own"})
             /\ downloads' = StaleFiles(SelectSeq(downloads, NotOwn))]_vars

\* C5: when the fetch of an item after the first begins nothing of an
\* earlier item is on disk, and the archive the source-B task takes is the
\* one its own request produced.
C5_ItemScoped ==
    /\ (pc = "submit_amazon" /\ idx > 1)
          => tmpAmazon = {} /\ tmpIcepim = {} /\ downloads = <<>>
    /\ \A n \in taskB["zip"] : downloads[n] = "own"

\* C6: inside the loop the report exists and is the header followed by
\* rows of this run for a prefix of the work list.
C6_HeaderThenPrefix ==
    pc \in LoopPcs =>
       /\ report["exists"]
       /\ Len(report["lines"]) >= 1
       /\ report["lines"][1] = Header
       /\ Len(report["lines"]) <= 1 + idx
       /\ \A n \in 2 .. Len(report["lines"]) : IsRowOf(report, n)

\* The first item of a run is being fetched and the report is the header.
C6_Witness ==
    pc = "result_amazon" /\ idx = 1 /\ report["lines"] = <<Header>>

\* C7: no task exists outside the reconciliation of an item, both tasks
\* have ended when the comparison starts, and a task starts only at its
\* submit, with the rows of all earlier items written and nothing of the
\* item on disk yet.
C7_Sequential ==
    /\ [](/\ pc \notin ItemPcs \/ pc = "submit_amazon"
             => taskA["st"] = "none" /\ taskB["st"] = "none"
          /\ pc = "submit_icepim" => taskA["st"] # "none" /\ taskB["st"] = "none"
          /\ pc \in ItemPcs \ {"submit_amazon", "submit_icepim"}
                => taskA["st"] # "none" /\ taskB["st"] # "none"
          /\ pc \in {"images", "text", "row", "cleanup"}
                => taskA["st"] = "done" /\ taskB["st"] = "done")
    /\ [][(taskA["st"] = "none" /\ taskA'["st"] # "none")
             => /\ pc = "submit_amazon"
                /\ taskA'["st"] = "start"
                /\ Len(report["lines"]) = idx
                /\ "own" \notin tmpAmazon \cup tmpIcepim]_vars
    /\ [][(taskB["st"] = "none" /\ taskB'["st"] # "none")
             => /\ pc = "submit_icepim"
                /\ taskB'["st"] = "start"
                /\ Len(report["lines"]) = idx]_vars

\* The comparison of the second item starts with both tasks ended.
C7_Witness ==
    pc = "images" /\ idx = 2 /\ taskA["st"] = "done" /\ taskB["st"] = "done"

\* C8: before the report is opened no task exists and no step changes the
\* report, and a run whose session initialisation raised goes nowhere but
\* back to idle.
C8_AbortBeforeItems ==
    /\ [](pc \in SetupPcs => taskA = NoTaskA /\ taskB = NoTaskB /\ idx = 0)
    /\ [][(pc \in SetupPcs) => report' = report]_vars
    /\ [][(pc \in {"init1", "init2"} /\ ipc[Worker] = "raised")
             => pc' \in {pc, "idle"}]_vars
    /\ [][(pc \in SetupPcs /\ pc' \notin SetupPcs)
             => /\ pc' = "header"
                /\ ipc[Worker] = "ret"
                /\ amazon_driver # None /\ icepim_driver # None]_vars

\* The session of source A is set up and the initialisation of the session
\* of source B raised in the worker thread.
C8_Witness ==
    pc = "init1" /\ ipc[Worker] = "raised" /\ amazon_driver = Session

\* The callers inside the guarded section of an init function.
Guarded == {c \in Threads : ipc[c] \in {"amz_crit", "amz_get", "ice_crit", "ice_login"}}

\* C9, as stated: setup_driver is executed at most once for each source,
\* and at most one caller is inside the guarded section.
C9_ExecutedOnce ==
    /\ \A s \in Sources : setupRuns[s] <= 1
    /\ Cardinality(Guarded) <= 1

\* C9, amended: setup_driver returns a session at most once for each
\* source, the holder of the lock is the one caller inside the guarded
\* section, and at most one caller is inside it.
C9_InitialisedOnce ==
    /\ \A s \in Sources : setupDone[s] <= 1
    /\ Guarded = lock
    /\ Cardinality(Guarded) <= 1

\* A second caller is inside the guarded section of init_amazon_driver
\* after the session of source A was set up, and another one waits.
C9_Witness ==
    /\ setupDone["amazon"] = 1
    /\ \E c \in Callers : ipc[c] = "amz_crit"
    /\ \E c \in Callers : ipc[c] \in {"amz_lock", "ice_lock"}

\* C10: the reconciliation of an item whose source-B snapshot is the one of
\* a caught exception ends with the row of the item as the last line of the
\* report, its status "ERROR" and its text verdicts those against the
\* placeholder title and bullets, and main goes on with the loop.
C10_ErrorRow ==
    [][(pc \in ItemPcs /\ pc' \notin ItemPcs /\ taskB["data"] = ErrorIcepim)
          => /\ pc' = "loop"
             /\ Len(report'["lines"]) = 1 + idx
             /\ IsRowOf(report', 1 + idx)
             /\ report'["lines"][1 + idx]["status"] = "ERROR"
             /\ report'["lines"][1 + idx]["title"]
                   = Verdict(clean(taskA["data"]["title"]) = clean(NOT_FOUND))
             /\ report'["lines"][1 + idx]["bullets"]
                   = Verdict(BulletsMatch(taskA["data"], ErrorIcepim))]_vars

\* The normalisation as the specification words it: the punctuation is
\* removed, every run of whitespace becomes one separator, the text is
\* lowercased and has no separator at its ends.
RECURSIVE collapse(_)
collapse(t) ==
    IF t = <<>> THEN <<>>
    ELSE IF Head(t) \in Whitespace THEN <<" ">> \o collapse(lstrip(t))
    ELSE <<Head(t)>> \o collapse(Tail(t))

normalize(t) == strip(collapse(resub_keep_space(lower(t))))

\* The characters of a text that are neither punctuation nor whitespace,
\* lowercased.
KeptChar(ch) == ch \notin Stripped

Squeeze(t) == lower(SelectSeq(t, KeptChar))

\* C11, as stated: the title verdict is MATCH exactly when the two titles
\* are equal after the normalisation that keeps one separator between words.
C11_TitleNormalized ==
    pc = "row" =>
       (cmp["title"] = "MATCH"
           <=> normalize(taskA["data"]["title"]) = normalize(taskB["data"]["title"]))

\* C11, amended: the title verdict is MATCH exactly when the two titles
\* have the same lowercased characters once the punctuation and every
\* whitespace character are removed, so titles that differ only in where
\* their words are split give MATCH.
C11_TitleCleaned ==
    pc = "row" =>
       /\ cmp["title"] \in {"MATCH", "DIFFER"}
       /\ cmp["title"] = "MATCH"
             <=> Squeeze(taskA["data"]["title"]) = Squeeze(taskB["data"]["title"])

\* The titles "a a" and "aa" were compared and gave MATCH.
C11_Witness ==
    /\ pc = "row"
    /\ taskA["data"]["title"] = <<"a", " ", "a">>
    /\ taskB["data"]["title"] = <<"a", "a">>
    /\ cmp["title"] = "MATCH"

\* The texts one change away from t: the case of a character, a
\* punctuation character more or less, a whitespace run longer or shorter.
Insert(t, i, ch) == SubSeq(t, 1, i) \o <<ch>> \o SubSeq(t, i + 1, Len(t))

Delete(t, i) == SubSeq(t, 1, i - 1) \o SubSeq(t, i + 1, Len(t))

SameLetter(ch) == {c \in TextChars \cup {Lower(ch)} : Lower(c) = Lower(ch)}

CaseVariants(t) ==
    UNION {{[t EXCEPT ![i] = ch] : ch \in SameLetter(t[i])} : i \in 1 .. Len(t)}

PunctVariants(t) ==
    {Insert(t, i, ch) : i \in 0 .. Len(t), ch \in Stripped \ Whitespace}
       \cup {Delete(t, i) : i \in {j \in 1 .. Len(t) : t[j] \in Stripped \ Whitespace}}

InRun(t, j) ==
    \/ j >= 1 /\ j <= Len(t) /\ t[j] \in Whitespace
    \/ j + 1 <= Len(t) /\ t[j + 1] \in Whitespace

SpaceVariants(t) ==
    {Insert(t, i, ch) : i \in {j \in 0 .. Len(t) : InRun(t, j)}, ch \in Whitespace}
       \cup {Delete(t, i) :
                i \in {j \in 1 .. Len(t) :
                          /\ t[j] \in Whitespace
                          /\ \/ j > 1 /\ t[j - 1] \in Whitespace
                             \/ j < Len(t) /\ t[j + 1] \in Whitespace}}

Variants(t) == CaseVariants(t) \cup PunctVariants(t) \cup SpaceVariants(t)

Hello == <<"H", "e", "l", "l", "o", ",", " ", "W", "o", "r", "l", "d", "(tm)">>

\* C12: the verdicts of two compared snapshots are those of the snapshots
\* with any one title or bullet changed in case, in punctuation or in the
\* length of a whitespace run; "Hello, World(tm)" and "hello world" match.
C12_Invariance ==
    pc = "row" =>
       /\ \A v \in Variants(taskA["data"]["title"]) :
             Verdict(TitleMatch([taskA["data"] EXCEPT !["title"] = v], taskB["data"]))
                = cmp["title"]
       /\ \A v \in Variants(taskB["data"]["title"]) :
             Verdict(TitleMatch(taskA["data"], [taskB["data"] EXCEPT !["title"] = v]))
                = cmp["title"]
       /\ \A i \in 1 .. Len(taskA["data"]["bullets"]) :
             \A v \in Variants(taskA["data"]["bullets"][i]) :
                Verdict(BulletsMatch([taskA["data"] EXCEPT !["bullets"][i] = v],
                                     taskB["data"])) = cmp["bullets"]
       /\ \A i \in 1 .. Len(taskB["data"]["bullets"]) :
             \A v \in Variants(taskB["data"]["bullets"][i]) :
                Verdict(BulletsMatch(taskA["data"],
                                     [taskB["data"] EXCEPT !["bullets"][i] = v]))
                   = cmp["bullets"]
       /\ TitleMatch([title |-> Hello], [title |-> lower(SubSeq(Hello, 1, 5) \o SubSeq(Hello, 7, 12))])

\* The titles "A.a" and "a a" were compared and gave MATCH.
C12_Witness ==
    /\ pc = "row"
    /\ taskA["data"]["title"] = <<"A", ".", "a">>
    /\ taskB["data"]["title"] = <<"a", " ", "a">>
    /\ cmp["title"] = "MATCH"

IsStrictPrefix(x, y) ==
    /\ Len(x) < Len(y)
    /\ \A i \in 1 .. Len(x) : clean(x[i]) = clean(y[i])

\* C13: the bullets verdict is MATCH exactly when the two lists have the
\* same length and equal cleaned bullets at every index; a list that is a
\* strict prefix of the other, and two different bullets in swapped order,
\* give DIFFER.
C13_Positional ==
    pc = "row" =>
       LET x == taskA["data"]["bullets"]
           y == taskB["data"]["bullets"]
       IN  /\ cmp["bullets"] \in {"MATCH", "DIFFER"}
           /\ cmp["bullets"] = "MATCH"
                 <=> /\ Len(x) = Len(y)
                     /\ \A i \in 1 .. Len(x) : Squeeze(x[i]) = Squeeze(y[i])
           /\ (IsStrictPrefix(x, y) \/ IsStrictPrefix(y, x)) => cmp["bullets"] = "DIFFER"
           /\ (Len(x) = 2 /\ y = <<x[2], x[1]>> /\ clean(x[1]) # clean(x[2]))
                 => cmp["bullets"] = "DIFFER"

\* Two different bullets were compared with the same two in swapped order.
C13_Witness ==
    /\ pc = "row"
    /\ taskA["data"]["bullets"] = << <<"a">>, <<"a", "a">> >>
    /\ taskB["data"]["bullets"] = << <<"a", "a">>, <<"a">> >>
    /\ cmp["bullets"] = "DIFFER"

\* The Hamming distance of two hashes counted in bits.
BitDistance(h1, h2) ==
    Cardinality({kb \in (1 .. Len(h1)) \X (1 .. 4) :
                    Bits(h1[kb[1]])[kb[2]] # Bits(h2[kb[1]])[kb[2]]})

TheFile(folder) == CHOOSE f \in folder["files"] : TRUE

\* Each folder holds the one file 1.jpg and both hashes were computed.
OnePair ==
    /\ \E h \in Hashes : amazon_folder = OneFile(h)
    /\ \E h \in Hashes : icepim_folder = OneFile(h)

\* C14: a pair of hashes gives MATCH exactly when the hashes differ in at
\* most IMAGE_THRESHOLD bits.
C14_BitThreshold ==
    (pc = "text" /\ OnePair) =>
       (cmp["images"] = "MATCH"
           <=> BitDistance(TheFile(amazon_folder)["hash"], TheFile(icepim_folder)["hash"])
                  <= IMAGE_THRESHOLD)

C16_Symmetric ==
    (pc = "text" /\ amazon_folder["exists"] /\ icepim_folder["exists"]) =>
       (compare_images_by_name_strict(icepim_folder, amazon_folder)["images_match"]
           <=> cmp["images"] = "MATCH")

\* The video fields of the two snapshots compared.
DurationsA == Range(taskA["data"]["videos_durations"])

DurationsB == Range(taskB["data"]["videos_durations"])

VideoDone == pc = "row" /\ "video_status" \in DOMAIN cmp /\ cmp["video_status"] # "-"

\* C17: with a duration of source B that could not be read, the video
\* status is Warning whatever source A has.
C17_Warning ==
    (VideoDone /\ DurationsB \cap Sentinels # {})
       => cmp["video_status"] = "Warning" /\ cmp["missing"] = <<>>

\* Source B has a duration that could not be read and a known one that
\* source A lacks.
C17_Witness ==
    /\ VideoDone
    /\ "error" \in DurationsB
    /\ (DurationsB \ Sentinels) \ DurationsA # {}
    /\ cmp["video_status"] = "Warning"

\* C18: with every duration of source B read, the status is Match exactly
\* when the durations of B are a subset of those of A, and otherwise Need
\* upload with the missing list the set difference B minus A, in
\* increasing order and without repetition.
C18_SubsetOrMissing ==
    (VideoDone /\ DurationsB \cap Sentinels = {}) =>
       /\ cmp["video_status"] \in {"Match", "Need upload"}
       /\ cmp["video_status"] = "Match" <=> DurationsB \subseteq DurationsA
       /\ cmp["video_status"] = "Need upload" =>
             /\ cmp["missing"] # <<>>
             /\ Range(cmp["missing"]) = DurationsB \ DurationsA
             /\ \A i \in 1 .. Len(cmp["missing"]), j \in 1 .. Len(cmp["missing"]) :
                   i < j => Rank(cmp["missing"][i]) < Rank(cmp["missing"][j])

\* Source B lists 3:10 before 1:30, source A has neither.
C18_Witness ==
    /\ VideoDone
    /\ taskB["data"]["videos_durations"] = <<"3:10", "1:30">>
    /\ taskA["data"]["videos_durations"] = <<"2:00", "2:00">>
    /\ taskA["data"]["videos_count"] = 0
    /\ cmp["video_status"] = "Need upload"
    /\ cmp["missing"] = <<"1:30", "3:10">>

\* The verdicts of the two snapshots, as the code computes them.
TextVerdicts ==
    [title |-> Verdict(Squeeze(taskA["data"]["title"]) = Squeeze(taskB["data"]["title"])),
     bullets |-> Verdict(/\ Len(taskA["data"]["bullets"]) = Len(taskB["data"]["bullets"])
                         /\ \A k \in 1 .. Len(taskA["data"]["bullets"]) :
                               Squeeze(taskA["data"]["bullets"][k]) =
                                  Squeeze(taskB["data"]["bullets"][k]))]

LastLine(rep) == rep["lines"][Len(rep["lines"])]

\* C19: the export is attempted exactly when it is enabled and the title or
\* the bullets differ; however the export ends, the comparison goes on to
\* write the row of the item with the verdicts computed before the export,
\* and from there to the next item.
C19_ExportBestEffort ==
    /\ [](pc \in {"row", "cleanup"} =>
            /\ export # "none" <=>
                  EXPORT_ENABLED /\ "DIFFER" \in {cmp["title"], cmp["bullets"]}
            /\ export # "not needed"
            /\ cmp["title"] = TextVerdicts["title"]
            /\ cmp["bullets"] = TextVerdicts["bullets"])
    /\ [](pc = "cleanup" =>
            /\ LastLine(report)["kind"] = "row"
            /\ LastLine(report)["idx"] = idx
            /\ LastLine(report)["title"] = TextVerdicts["title"]
            /\ LastLine(report)["bullets"] = TextVerdicts["bullets"])
    /\ [][/\ (pc = "text") => pc' = "row"
          /\ (pc = "cleanup") => pc' = "loop" /\ report' = report
          /\ (pc = "loop" /\ idx < total) =>
                pc' = "submit_amazon" /\ idx' = idx + 1 /\ report' = report]_vars

\* The export of the first item failed; its row is written with the
\* difference and the run is at the second item.
C19_Witness ==
    /\ pc = "submit_amazon"
    /\ idx = 2
    /\ EXPORT_ENABLED
    /\ export = "error"
    /\ LastLine(report)["kind"] = "row"
    /\ LastLine(report)["idx"] = 1
    /\ LastLine(report)["title"] = "MATCH"
    /\ LastLine(report)["bullets"] = "DIFFER"

\* C20: the gallery comparison is called only for an item whose status is
\* Approved in a run with the image check enabled; for any other item the
\* images verdict is the one of the branch that does not call it (line 1111).
C20_OnlyApproved ==
    [][(pc = "images" /\ pc' = "text" /\ taskB["data"]["status"] # "Approved")
          => cmp'["images"] = Verdict(TRUE)]_vars

\* C21: an image is requested at most three times and no more after a
\* success; an asset whose three requests failed has an empty file under
\* its name, and the function goes through every asset and returns.
C21_RetryPlaceholder ==
    dl["st"] # "idle" =>
       \A k \in Positions :
          /\ dl["requests"][k] <= 3
          /\ (dl["ok"][k] /\ k < dl["i"]) => dl["files"][k] = "image"
          /\ dl["placed"][k] <=> (k < dl["i"] /\ ~dl["ok"][k] /\ dl["requests"][k] = 3)
          /\ dl["placed"][k] => dl["files"][k] = "empty"
          /\ dl["st"] = "returned" => (k <= dl["n"] <=> (dl["ok"][k] \/ dl["placed"][k]))

\* C22: the name of an item is the identifier of its URL, or unknown_<index>
\* when the URL has none, and it is the same in the report row, in the
\* folder of source A and in the request and the folder of source B.
C22_OneIdentity ==
    (ident["st"] = "tasks") =>
       /\ ident["row"] = IF re_search(ident["url"]) = NoMatch
                           THEN <<"unknown_", ToString(ident["idx"])>>
                           ELSE re_search(ident["url"])
       /\ ident["amazon"] # NoMatch => ident["amazon"] = ident["row"]
       /\ ident["icepim"] \notin {NoMatch, <<"-">>} => ident["icepim"] = ident["row"]

\* C23: the loop over the items runs only with a source-B session whose
\* login completed, in every run of the process: a fetch task of source B
\* exists only when login_icepim returned on the session of icepim_driver.
C23_LoopLoggedIn ==
    (pc = "loop" \/ taskB["st"] # "none") => (icepim_driver # None /\ loggedIn)

\* C24: when neither source gave a title nor bullets (both snapshots hold the
\* placeholders), the row of the item does not read MATCH for the title or
\* for the bullets.
C24_NoMatchOnPlaceholders ==
    (/\ pc = "cleanup"
     /\ taskA["data"]["title"] = NOT_FOUND
     /\ taskB["data"]["title"] = NOT_FOUND
     /\ taskA["data"]["bullets"] = <<NOT_FOUND>>
     /\ taskB["data"]["bullets"] = <<NOT_FOUND>>)
       => /\ LastLine(report)["title"] # "MATCH"
          /\ LastLine(report)["bullets"] # "MATCH"

\* C25: when the gallery comparison gives MATCH, the base names listed for
\* the two folders are the same, so that every one of them was compared and
\* none is missing on a side.
C25_MatchCoversAllKeys ==
    (pc = "text" /\ CHECK_IMAGES /\ amazon_folder["exists"] /\ cmp["images"] = "MATCH")
       => BasesOf(AmazonFiles(amazon_folder)) = BasesOf(IcepimFiles(icepim_folder))

\* Who is using a session: process_amazon works on amazon_driver alone
\* (lines 981-987), process_icepim on icepim_driver alone (993-1000), and
\* main hands icepim_driver to the export (1126-1127).
AmazonUsers ==
    {u \in {"process_amazon"} : taskA["st"] \notin {"none", "done", "raised"}}

IcepimUsers ==
    {u \in {"process_icepim"} : taskB["st"] \notin {"none", "done", "raised"}}
       \cup {u \in {"export"} :
                /\ pc = "text"
                /\ ExportCalled(EXPORT_ENABLED,
                                Squeeze(taskA["data"]["title"]) = Squeeze(taskB["data"]["title"]),
                                TextVerdicts["bullets"] = "MATCH")}

\* C26: each session has at most one user at a time, and when the export
\* has the source-B session both fetch tasks of the item are over.
C26_OneUserPerSession ==
    /\ Cardinality(AmazonUsers) <= 1
    /\ Cardinality(IcepimUsers) <= 1
    /\ "export" \in IcepimUsers =>
          taskA["st"] \in {"done", "raised"} /\ taskB["st"] \in {"done", "raised"}

\* The export of the second item is about to use the source-B session,
\* after fetch tasks that downloaded the galleries.
C26_Witness ==
    /\ IcepimUsers = {"export"}
    /\ AmazonUsers = {}
    /\ idx = 2
    /\ CHECK_IMAGES
    /\ taskB["folder"] # {}

\* The rows the run in progress wrote.
FreshRows ==
    {report["lines"][k] : k \in {j \in 1 .. Len(report["lines"]) :
                                    /\ report["lines"][j]["kind"] = "row"
                                    /\ report["lines"][j]["fresh"]}}

\* C27: in a run with the image check disabled no folder and no archive is
\* made or asked for and every row reads Images = MATCH; in a run with the
\* video check disabled both snapshots of every item have count 0 and no
\* durations and every row reads Video = Match.
C27_DisabledReadsMatch ==
    (pc # "idle") =>
       /\ ~CHECK_IMAGES =>
             /\ taskA["folder"] = {} /\ taskB["folder"] = {} /\ taskB["zip"] = {}
             /\ tmpAmazon = {} /\ tmpIcepim = {}
             /\ downloads = <<>> /\ pending = NoPending
             /\ cmp["images"] \in {"-", "MATCH"}
             /\ \A r \in FreshRows : r["images"] = "MATCH"
       /\ ~CHECK_VIDEOS =>
             /\ \A t \in {taskA, taskB} :
                   /\ VideoFields(t["data"])["videos_count"] = 0
                   /\ VideoFields(t["data"])["videos_durations"] = <<>>
             /\ \A r \in FreshRows : r["video"] = "Match"

\* Both checks disabled, and the second item, approved and found on both
\* sides, has its row.
C27_Witness ==
    /\ pc = "cleanup"
    /\ ~CHECK_IMAGES
    /\ ~CHECK_VIDEOS
    /\ idx = 2
    /\ taskA["data"] \in FoundAmazon
    /\ taskB["data"]["status"] = "Approved"
    /\ LastLine(report)["images"] = "MATCH"
    /\ LastLine(report)["video"] = "Match"

====
